---- MODULE Spec2Model ----
(***************************************************************************)
(* A model of ax::Json (src/json.hpp): the doubly indirected Proxy handle, *)
(* the Node hierarchy, the Json facade and the recursive-descent parser.   *)
(*                                                                         *)
(* Storage is a heap of two kinds of object:                               *)
(*   cells : the inner std::shared_ptr<Node> a Proxy's pp points to        *)
(*           (cell id |-> node id);                                        *)
(*   nodes : the Node objects (node id |-> node record).                   *)
(* A Proxy is the id of its cell; copying a Proxy copies the id.           *)
(* Text is a sequence of characters, a character a one-letter string.      *)
(***************************************************************************)
EXTENDS Integers, Sequences, FiniteSets, TLC

VARIABLES
    cells,      \* cell id |-> node id: what each live Proxy's pp holds
    nodes,      \* node id |-> node record: every live Node
    jsons,      \* program variable |-> cell id of its root, 0 before its declaration
    made,       \* history: for each variable, the declaration that made it
    input,      \* the std::string handed to parse_str
    pc,         \* "idle": no parse in hand; "built", "ready", "done": the parsing program
    outcome     \* what the last parse_str call did: its exception, cursor, ...

vars == <<cells, nodes, jsons, made, input, pc, outcome>>

(***************************************************************************)
(* Bounds of the model.                                                    *)
(***************************************************************************)
MaxNodes == 4       \* live Node objects
MaxCells == 4       \* live inner cells
MaxLen   == 4       \* length of the enumerated parser inputs

Names == {"a", "b"}            \* the program's Json variables

(***************************************************************************)
(* Characters.  NUL is the terminator std::string keeps after its last     *)
(* character; FAULT stands for a read outside the memory of the process.   *)
(***************************************************************************)
NUL == "NUL"
FAULT == "FAULT"
QUOTE == "\""
Digits == {"0", "1", "2", "3", "4", "5", "6", "7", "8", "9"}
\* the characters of the model in the order of their char values
CharOrder == <<NUL, " ", QUOTE, ",", ".", "0", "1", "2", "3", "4", "5", "6",
               "7", "8", "9", ":", ";", "[", "]", "a", "b", "e", "f", "l", "m",
               "r", "s", "t", "u", "x", "y", "z", "{", "}">>
Ord(ch) == CHOOSE i \in 1..Len(CharOrder) : CharOrder[i] = ch

\* std::string operator< : lexicographic on char values
RECURSIVE StrLess(_, _)
StrLess(s, t) ==
    IF t = <<>> THEN FALSE
    ELSE IF s = <<>> THEN TRUE
    ELSE IF Head(s) = Head(t) THEN StrLess(Tail(s), Tail(t))
    ELSE Ord(Head(s)) < Ord(Head(t))

(***************************************************************************)
(* Nodes.  value is <<>> for an empty std::optional and <<text>> for a     *)
(* present one; mode names the _printer lambda; kids is the std::map of an *)
(* ObjectNode as the sequence of its entries in key order; elems is the    *)
(* std::vector of an ArrayNode.                                            *)
(***************************************************************************)
MkNode(kind, value, mode, kids, elems) ==
    [kind |-> kind, value |-> value, mode |-> mode, kids |-> kids, elems |-> elems]

BaseNode == MkNode("Node", <<>>, "none", <<>>, <<>>)
NullLeaf == MkNode("Leaf", <<>>, "none", <<>>, <<>>)
StringLeaf(text) == MkNode("Leaf", <<text>>, "string", <<>>, <<>>)
NumberLeaf(text) == MkNode("Leaf", <<text>>, "numeric", <<>>, <<>>)
BoolLeaf(b) == MkNode("Leaf", <<IF b THEN <<"1">> ELSE <<"0">>>>, "bool", <<>>, <<>>)
EmptyObject == MkNode("Object", <<>>, "none", <<>>, <<>>)
EmptyArray == MkNode("Array", <<>>, "none", <<>>, <<>>)

is_leaf(n) == n.kind = "Leaf"
indexable(n) == n.kind = "Array"
key_indexable(n) == n.kind = "Object"

(***************************************************************************)
(* std::map<std::string, Proxy<Node>>                                      *)
(***************************************************************************)
\* position of key among the entries, 0 when absent
MapFind(kids, key) ==
    IF \E i \in 1..Len(kids) : kids[i].key = key
    THEN CHOOSE i \in 1..Len(kids) : kids[i].key = key
    ELSE 0

\* a variant that keeps the entries in the order of their insertion
MapInsert_append(kids, key, cell) == Append(kids, [key |-> key, cell |-> cell])

\* a new entry goes where the key order puts it
MapInsert(kids, key, cell) ==
    LET before == Cardinality({i \in 1..Len(kids) : StrLess(kids[i].key, key)})
    IN  SubSeq(kids, 1, before) \o <<[key |-> key, cell |-> cell]>>
            \o SubSeq(kids, before + 1, Len(kids))

(***************************************************************************)
(* The heap and its allocation.  H is [cells, nodes].                      *)
(***************************************************************************)
EmptyHeap == [cells |-> <<>>, nodes |-> <<>>]

\* the lowest id not in use
Fresh(used) ==
    CHOOSE i \in 1..(Cardinality(used) + 1) :
        i \notin used /\ \A j \in 1..(i - 1) : j \in used

\* std::make_shared<T>(...) / new T(...)
AllocNode(H, n) ==
    LET id == Fresh(DOMAIN H.nodes)
    IN  [heap |-> [H EXCEPT !.nodes = (id :> n) @@ @], node |-> id]

\* std::make_shared<std::shared_ptr<T>>(p)
AllocCell(H, node) ==
    LET id == Fresh(DOMAIN H.cells)
    IN  [heap |-> [H EXCEPT !.cells = (id :> node) @@ @], cell |-> id]

NodeOf(H, cell) == H.nodes[H.cells[cell]]

(***************************************************************************)
(* Proxy<Node>.  Every operation returns [heap, cell]: the heap after it   *)
(* and the Proxy it yields.                                                *)
(***************************************************************************)
\* Proxy(std::shared_ptr<U> up): a new cell holding a new node
ProxyOf(H, n) ==
    LET a == AllocNode(H, n)
    IN  AllocCell(a.heap, a.node)

\* Proxy(Args... args) with no argument: make_shared<Node>(), a plain Node
ProxyDefault(H) == ProxyOf(H, BaseNode)

\* Proxy(const Proxy<T> &other): pp(other.pp)
ProxyCopy(H, other) == [heap |-> H, cell |-> other]

\* void reset(const Proxy<T> &other) { *pp = *other.pp; }
reset(H, this, other) == [H EXCEPT !.cells[this] = H.cells[other]]

(***************************************************************************)
(* Node hierarchy: subscripts and clone.                                   *)
(***************************************************************************)
\* Proxy<Node> ObjectNode::operator[](std::string key) { return children[key]; }
\* std::map::operator[] default-constructs the Proxy of a key it does not hold.
ObjectNode_subscript(H, node, key) ==
    LET kids == H.nodes[node].kids
        at == MapFind(kids, key)
        p == ProxyDefault(H)
    IN  IF at # 0
        THEN [heap |-> H, cell |-> kids[at].cell]
        ELSE [heap |-> [p.heap EXCEPT !.nodes[node].kids = MapInsert(kids, key, p.cell)],
              cell |-> p.cell]

\* a variant of ArrayNode::operator[] that stores the null leaf it returns
ArrayNode_subscript_grow(H, node, idx) ==
    LET elems == H.nodes[node].elems
        p == ProxyOf(H, NullLeaf)
    IN  IF idx >= Len(elems)
        THEN [heap |-> [p.heap EXCEPT !.nodes[node].elems = Append(@, p.cell)],
              cell |-> p.cell]
        ELSE [heap |-> H, cell |-> elems[idx + 1]]

\* Proxy<Node> ArrayNode::operator[](size_t idx)
ArrayNode_subscript(H, node, idx) ==
    LET elems == H.nodes[node].elems
    IN  IF idx >= Len(elems)
        THEN ProxyOf(H, NullLeaf)
        ELSE [heap |-> H, cell |-> elems[idx + 1]]

\* void ArrayNode::add_child(Proxy<Node> child) { children.push_back(child); }
add_child(H, node, child) == [H EXCEPT !.nodes[node].elems = Append(@, child)]

\* Node::clone, ValueNode::clone, ObjectNode::clone, ArrayNode::clone and
\* Proxy::clone, which wraps the copy in a new cell.  Returns [heap, cell].
RECURSIVE Proxy_clone(_, _)
RECURSIVE CloneKids(_, _, _)
RECURSIVE CloneElems(_, _, _)

\* for (auto &[key, child] : children) clone->children[key] = child.clone();
CloneKids(H, kids, into) ==
    IF kids = <<>> THEN H
    ELSE LET c == Proxy_clone(H, Head(kids).cell)
             slot == ObjectNode_subscript(c.heap, into, Head(kids).key)
             \* Proxy's copy assignment rebinds the entry's pp to the clone's cell
             at == MapFind(slot.heap.nodes[into].kids, Head(kids).key)
             H2 == [slot.heap EXCEPT !.nodes[into].kids[at].cell = c.cell]
         IN  CloneKids(H2, Tail(kids), into)

\* for (auto &child : children) clone->children.push_back(child.clone());
CloneElems(H, elems, into) ==
    IF elems = <<>> THEN H
    ELSE LET c == Proxy_clone(H, Head(elems))
         IN  CloneElems(add_child(c.heap, into, c.cell), Tail(elems), into)

\* a variant of ObjectNode::clone that copy-constructs the node: new
\* ObjectNode(*this) copies the map and with it the children's handles
ObjectNode_clone_shallow(H, node) == AllocNode(H, H.nodes[node])

ObjectNode_clone(H, node) ==
    LET fresh == AllocNode(H, EmptyObject)
    IN  [heap |-> CloneKids(fresh.heap, H.nodes[node].kids, fresh.node),
         node |-> fresh.node]

ArrayNode_clone(H, node) ==
    LET fresh == AllocNode(H, EmptyArray)
    IN  [heap |-> CloneElems(fresh.heap, H.nodes[node].elems, fresh.node),
         node |-> fresh.node]

\* virtual Node *clone() const, dispatched on the dynamic type
Node_clone(H, node) ==
    LET n == H.nodes[node]
    IN  IF key_indexable(n) THEN ObjectNode_clone(H, node)
        ELSE IF indexable(n) THEN ArrayNode_clone(H, node)
        ELSE AllocNode(H, n)

Proxy_clone(H, cell) ==
    LET c == Node_clone(H, H.cells[cell])
    IN  AllocCell(c.heap, c.node)

(***************************************************************************)
(* Reachability, ownership and the value a handle shows.                   *)
(***************************************************************************)
ChildCells(n) == {n.kids[i].cell : i \in 1..Len(n.kids)}
                    \cup {n.elems[i] : i \in 1..Len(n.elems)}

\* the cells reachable from the cells in S through child handles
RECURSIVE ReachCells(_, _)
ReachCells(H, S) ==
    LET more == S \cup UNION {ChildCells(NodeOf(H, c)) : c \in S}
    IN  IF more = S THEN S ELSE ReachCells(H, more)

ReachNodes(H, S) == {H.cells[c] : c \in ReachCells(H, S)}

\* a node is on a cycle when it is reachable from one of its own children
OnCycle(H, node) ==
    node \in ReachNodes(H, ChildCells(H.nodes[node]))

Acyclic(H) == \A node \in DOMAIN H.nodes : ~OnCycle(H, node)
AcyclicFrom(H, cell) == \A node \in ReachNodes(H, {cell}) : ~OnCycle(H, node)

\* The order in which a traversal from the variables, taken in NameOrder,
\* first meets the cells: children before siblings, kids before elems.
NameOrder == <<"a", "b">>
ChildSeq(n) == [i \in 1..Len(n.kids) |-> n.kids[i].cell] \o n.elems
SeqRange(q) == {q[i] : i \in 1..Len(q)}
IndexIn(q, e) == CHOOSE i \in 1..Len(q) : q[i] = e

RECURSIVE Visit(_, _, _)
Visit(H, todo, order) ==
    IF todo = <<>> THEN order
    ELSE IF Head(todo) \in SeqRange(order) THEN Visit(H, Tail(todo), order)
    ELSE Visit(H, ChildSeq(NodeOf(H, Head(todo))) \o Tail(todo), Append(order, Head(todo)))

RECURSIVE Dedup(_, _)
Dedup(q, acc) ==
    IF q = <<>> THEN acc
    ELSE Dedup(Tail(q), IF Head(q) \in SeqRange(acc) THEN acc ELSE Append(acc, Head(q)))

\* shared_ptr ownership: storage no Json variable reaches any more is released.
\* Addresses are not observable, so what stays is kept under the numbering
\* of the traversal: cell i is the i-th cell met, node j the j-th node met.
Collect(H, js) ==
    LET roots == SelectSeq([i \in 1..Len(NameOrder) |-> js[NameOrder[i]]],
                           LAMBDA c : c # 0)
        cellOrder == Visit(H, roots, <<>>)
        nodeOrder == Dedup([i \in 1..Len(cellOrder) |-> H.cells[cellOrder[i]]], <<>>)
        Moved(n) == [n EXCEPT
                       !.kids = [i \in 1..Len(n.kids) |->
                                    [key |-> n.kids[i].key,
                                     cell |-> IndexIn(cellOrder, n.kids[i].cell)]],
                       !.elems = [i \in 1..Len(n.elems) |-> IndexIn(cellOrder, n.elems[i])]]
    IN  [cells |-> [i \in 1..Len(cellOrder) |-> IndexIn(nodeOrder, H.cells[cellOrder[i]])],
         nodes |-> [j \in 1..Len(nodeOrder) |-> Moved(H.nodes[nodeOrder[j]])],
         jsons |-> [x \in DOMAIN js |->
                       IF js[x] = 0 THEN 0 ELSE IndexIn(cellOrder, js[x])]]

\* the tree under a handle, handles followed: defined when AcyclicFrom
RECURSIVE Unfold(_, _)
Unfold(H, cell) ==
    LET n == NodeOf(H, cell)
    IN  MkNode(n.kind, n.value, n.mode,
               [i \in 1..Len(n.kids) |->
                   [key |-> n.kids[i].key, val |-> Unfold(H, n.kids[i].cell)]],
               [i \in 1..Len(n.elems) |-> Unfold(H, n.elems[i])])

(***************************************************************************)
(* Serialization: Node::dump and its overrides, reached through            *)
(* operator<<.  Defined when AcyclicFrom(H, cell): on a cycle the          *)
(* recursion of the code never returns.                                    *)
(***************************************************************************)
\* the three _printer lambdas of ValueNode
Printer(mode, value) ==
    IF mode = "string" THEN <<QUOTE>> \o value \o <<QUOTE>>
    ELSE IF mode = "bool"
         THEN (IF value = <<"0">> THEN <<"f", "a", "l", "s", "e">>
                                  ELSE <<"t", "r", "u", "e">>)
    ELSE value

\* std::ostream &ValueNode::dump(std::ostream &os) const
ValueNode_dump(n) ==
    IF n.value # <<>> THEN Printer(n.mode, n.value[1])
    ELSE <<"n", "u", "l", "l">>

RECURSIVE Dump(_, _)
RECURSIVE DumpKids(_, _)
RECURSIVE DumpElems(_, _)

\* the loop of ObjectNode::dump
DumpKids(H, kids) ==
    IF kids = <<>> THEN <<>>
    ELSE <<QUOTE>> \o Head(kids).key \o <<QUOTE, ":", " ">> \o Dump(H, Head(kids).cell)
            \o (IF Tail(kids) # <<>> THEN <<",", " ">> ELSE <<>>)
            \o DumpKids(H, Tail(kids))

\* the loop of ArrayNode::dump
DumpElems(H, elems) ==
    IF elems = <<>> THEN <<>>
    ELSE Dump(H, Head(elems))
            \o (IF Tail(elems) # <<>> THEN <<",", " ">> ELSE <<>>)
            \o DumpElems(H, Tail(elems))

\* operator<<(os, Proxy) -> Node::dump, dispatched on the dynamic type
Dump(H, cell) ==
    LET n == NodeOf(H, cell)
    IN  IF is_leaf(n) THEN ValueNode_dump(n)
        ELSE IF key_indexable(n) THEN <<"{">> \o DumpKids(H, n.kids) \o <<"}">>
        ELSE IF indexable(n) THEN <<"[">> \o DumpElems(H, n.elems) \o <<"]">>
        ELSE <<>>

(***************************************************************************)
(* The Json facade.  A Json is its root Proxy, that is, a cell.            *)
(***************************************************************************)
\* Json() : root(ObjectNode::proxy())
Json_default(H) == ProxyOf(H, EmptyObject)

\* Json Json::operator[](std::string key)
Json_subscript_key(H, root, key) ==
    IF key_indexable(NodeOf(H, root))
    THEN ObjectNode_subscript(H, H.cells[root], key)
    ELSE Json_default(H)

\* a variant of the indexed subscript that answers a root that is not
\* indexable with a null leaf
Json_subscript_idx_null(H, root, idx) ==
    IF indexable(NodeOf(H, root))
    THEN ArrayNode_subscript(H, H.cells[root], idx)
    ELSE ProxyOf(H, NullLeaf)

\* Json Json::operator[](size_t idx)
Json_subscript_idx(H, root, idx) ==
    IF indexable(NodeOf(H, root))
    THEN ArrayNode_subscript(H, H.cells[root], idx)
    ELSE Json_default(H)

\* a subscript of an expression: a key or an index
Key(k) == [tag |-> "key", key |-> k, idx |-> 0]
Idx(i) == [tag |-> "idx", key |-> <<>>, idx |-> i]

Json_subscript(H, root, s) ==
    IF s.tag = "key" THEN Json_subscript_key(H, root, s.key)
    ELSE Json_subscript_idx(H, root, s.idx)

\* the expression root[s1][s2]..., evaluated left to right
RECURSIVE Eval(_, _, _)
Eval(H, root, path) ==
    IF path = <<>> THEN [heap |-> H, cell |-> root]
    ELSE LET r == Json_subscript(H, root, Head(path))
         IN  Eval(r.heap, r.cell, Tail(path))

\* an array of leaves: the loop shared by Json(std::vector<T>) and operator=(std::vector<T>)
RECURSIVE AddLeaves(_, _, _)
AddLeaves(H, node, items) ==
    IF items = <<>> THEN H
    ELSE LET p == ProxyOf(H, Head(items))
         IN  AddLeaves(add_child(p.heap, node, p.cell), node, Tail(items))

ArrayOfLeaves(H, items) ==
    LET array == ProxyOf(H, EmptyArray)
    IN  [heap |-> AddLeaves(array.heap, array.heap.cells[array.cell], items),
         cell |-> array.cell]

\* Json(T value), Json(std::string), Json(const char *), Json(bool)
Json_of_value(H, leaf) == ProxyOf(H, leaf)

\* Json(std::vector<T> value): root is default-constructed, then reset
Json_of_vector(H, items) ==
    LET root == ProxyDefault(H)
        array == ArrayOfLeaves(root.heap, items)
    IN  [heap |-> reset(array.heap, root.cell, array.cell), cell |-> root.cell]

\* Json operator=(Json other) { root.reset(other.root); return *this; }
Json_assign(H, root, other) == reset(H, root, other)

\* operator=(std::string), operator=(const char *), operator=(T)
Json_assign_value(H, root, leaf) ==
    LET p == ProxyOf(H, leaf)
    IN  reset(p.heap, root, p.cell)

\* Json operator=(std::vector<T> value)
Json_assign_vector(H, root, items) ==
    LET array == ArrayOfLeaves(H, items)
    IN  reset(array.heap, root, array.cell)

\* Json clone() const { return Json(root.clone()); }
Json_clone(H, root) == Proxy_clone(H, root)

\* static Json array(std::vector<Json> list)
RECURSIVE AddChildren(_, _, _)
AddChildren(H, node, list) ==
    IF list = <<>> THEN H
    ELSE AddChildren(add_child(H, node, Head(list)), node, Tail(list))

\* a variant of Json::array whose children are handles of their own on the
\* nodes of the given values
RECURSIVE AddChildren_own(_, _, _)
AddChildren_own(H, node, list) ==
    IF list = <<>> THEN H
    ELSE LET own == AllocCell(H, H.cells[Head(list)])
         IN  AddChildren_own(add_child(own.heap, node, own.cell), node, Tail(list))
Json_array_own(H, list) ==
    LET array == ProxyOf(H, EmptyArray)
    IN  [heap |-> AddChildren_own(array.heap, array.heap.cells[array.cell], list),
         cell |-> array.cell]

Json_array(H, list) ==
    LET array == ProxyOf(H, EmptyArray)
    IN  [heap |-> AddChildren(array.heap, array.heap.cells[array.cell], list),
         cell |-> array.cell]

\* Json(std::initializer_list<std::pair<std::string, Json>> list)
RECURSIVE ResetEntries(_, _, _)
ResetEntries(H, node, list) ==
    IF list = <<>> THEN H
    ELSE LET slot == ObjectNode_subscript(H, node, Head(list).key)
         IN  ResetEntries(reset(slot.heap, slot.cell, Head(list).cell), node, Tail(list))

Json_of_list(H, list) ==
    LET root == ProxyDefault(H)
        object == ProxyOf(root.heap, EmptyObject)
        filled == ResetEntries(object.heap, object.heap.cells[object.cell], list)
    IN  [heap |-> reset(filled, root.cell, object.cell), cell |-> root.cell]

(***************************************************************************)
(* The parser.  json is [str, mem]: the cleaned std::string and the memory *)
(* it lies in, which goes on after the terminator.  A parse is threaded by *)
(* a record R:                                                             *)
(*   exc   "none", or the exception in flight ("fault": the process died   *)
(*         reading unmapped memory)                                        *)
(*   heap  the heap so far          cell  the Json returned                *)
(*   index the cursor               high  the highest position read        *)
(*   vpos  the positions parse_recursively was entered at                  *)
(***************************************************************************)
\* json[index]: defined up to the terminator at size(); what lies after it is
\* whatever the memory holds
At(json, i) == IF i < Len(json.mem) THEN json.mem[i + 1] ELSE FAULT

\* json.substr(pos, n), for pos <= size()
substr(str, pos, n) ==
    SubSeq(str, pos + 1, IF pos + n < Len(str) THEN pos + n ELSE Len(str))

Raise(R, exc) == [R EXCEPT !.exc = exc]
Touch(R, i) == [R EXCEPT !.high = IF i > @ THEN i ELSE @]
Advance(R, n) == [R EXCEPT !.index = @ + n]
Return(R, p) == [R EXCEPT !.heap = p.heap, !.cell = p.cell]

\* std::to_string(std::stol(digits)): the digits without their leading zeros;
\* std::out_of_range above LONG_MAX
LongMax == <<"9", "2", "2", "3", "3", "7", "2", "0", "3", "6", "8", "5", "4",
             "7", "7", "5", "8", "0", "7">>
RECURSIVE StripZeros(_)
StripZeros(d) ==
    IF Len(d) > 1 /\ Head(d) = "0" THEN StripZeros(Tail(d)) ELSE d
FitsLong(digits) ==
    LET d == StripZeros(digits)
    IN  \/ Len(d) < Len(LongMax)
        \/ Len(d) = Len(LongMax) /\ ~StrLess(LongMax, d)

\* std::to_string(std::stof(text)): stof reads up to a second '.', to_string
\* prints six decimals.  Exact for the short numerals below 16 used here.
RECURSIVE Zeros(_)
Zeros(n) == IF n <= 0 THEN <<>> ELSE <<"0">> \o Zeros(n - 1)
FloatText(text) ==
    LET dots == {i \in 1..Len(text) : text[i] = "."}
        first == CHOOSE i \in dots : \A j \in dots : i <= j
        later == {i \in dots : i > first}
        stop == IF later = {} THEN Len(text) + 1
                ELSE CHOOSE i \in later : \A j \in later : i <= j
        whole == SubSeq(text, 1, first - 1)
        frac == SubSeq(text, first + 1, stop - 1)
    IN  StripZeros(whole) \o <<".">> \o SubSeq(frac \o Zeros(6), 1, 6)

\* while (json[index] != '"') out << json[index++];   for keys and strings
RECURSIVE ScanToQuote(_, _, _)
ScanToQuote(json, R, acc) ==
    LET ch == At(json, R.index)
        R1 == Touch(R, R.index)
    IN  IF ch = FAULT THEN [r |-> Raise(R1, "fault"), text |-> acc]
        ELSE IF ch = QUOTE THEN [r |-> R1, text |-> acc]
        ELSE ScanToQuote(json, Advance(R1, 1), Append(acc, ch))

\* while (json[index] == '.' || is_number(json[index])) number << json[index++];
RECURSIVE ScanNumber(_, _, _)
ScanNumber(json, R, acc) ==
    LET ch == At(json, R.index)
        R1 == Touch(R, R.index)
    IN  IF ch = FAULT THEN [r |-> Raise(R1, "fault"), text |-> acc]
        ELSE IF ch = "." \/ ch \in Digits
             THEN ScanNumber(json, Advance(R1, 1), Append(acc, ch))
        ELSE [r |-> R1, text |-> acc]

\* a variant of the fall-through branch that yields a null leaf
NoValue_null(R) == Return(R, ProxyOf(R.heap, NullLeaf))

\* the branch of parse_value that falls through every test
NoValue(R) == Raise(R, "MalformedJson")

\* static Json parse_value(std::string &json, size_t &index)
parse_value(json, R) ==
    LET ch == At(json, R.index)
        R1 == Touch(R, R.index)
        num == ScanNumber(json, R, <<>>)
        str == ScanToQuote(json, Advance(R1, 1), <<>>)
    IN  IF R.index > Len(json.str) THEN Raise(R, "out_of_range")
        ELSE IF substr(json.str, R.index, 4) = <<"t", "r", "u", "e">>
             THEN Return(Advance(R, 4), Json_of_value(R.heap, BoolLeaf(TRUE)))
        ELSE IF substr(json.str, R.index, 5) = <<"f", "a", "l", "s", "e">>
             THEN Return(Advance(R, 5), Json_of_value(R.heap, BoolLeaf(FALSE)))
        ELSE IF ch \in Digits
             THEN IF num.r.exc # "none" THEN num.r
                  ELSE IF "." \in SeqRange(num.text)
                       THEN Return(num.r, Json_of_value(R.heap, NumberLeaf(FloatText(num.text))))
                  ELSE IF ~FitsLong(num.text) THEN Raise(num.r, "out_of_range")
                  ELSE Return(num.r, Json_of_value(R.heap, NumberLeaf(StripZeros(num.text))))
        ELSE IF ch = QUOTE
             THEN IF str.r.exc # "none" THEN str.r
                  ELSE Return(Advance(str.r, 1), Json_of_value(R.heap, StringLeaf(str.text)))
        ELSE NoValue(Advance(R1, 1))

RECURSIVE parse_recursively(_, _)
RECURSIVE ObjectLoop(_, _, _)
RECURSIVE ArrayLoop(_, _, _)

\* the while loop of parse_object
ObjectLoop(json, R, object) ==
    LET ch == At(json, R.index)
        R1 == Touch(R, R.index)
        k == ScanToQuote(json, Advance(R1, 1), <<>>)
        \* ++index (final quote); ++index (colon); then the value
        v == parse_recursively(json, Advance(k.r, 2))
        after == At(json, v.index)
        R2 == Touch(v, v.index)
        R3 == IF after # "}" THEN Advance(R2, 1) ELSE R2
        \* object[key.str()] = value;
        slot == Json_subscript_key(R3.heap, object, k.text)
        stored == Json_assign(slot.heap, slot.cell, v.cell)
    IN  IF ch = FAULT THEN Raise(R1, "fault")
        ELSE IF ch = "}" THEN [Advance(R1, 1) EXCEPT !.cell = object]
        ELSE IF ch # QUOTE THEN Raise(Advance(R1, 1), "MalformedJson")
        ELSE IF k.r.exc # "none" THEN k.r
        ELSE IF v.exc # "none" THEN v
        ELSE IF after = FAULT THEN Raise(R2, "fault")
        ELSE ObjectLoop(json, [R3 EXCEPT !.heap = stored], object)

\* static Json parse_object(std::string &json, size_t &index)
parse_object(json, R) ==
    LET object == Json_default(R.heap)
    IN  ObjectLoop(json, [Advance(R, 1) EXCEPT !.heap = object.heap], object.cell)

\* the while loop of parse_array
ArrayLoop(json, R, array) ==
    LET ch == At(json, R.index)
        R1 == Touch(R, R.index)
        v == parse_recursively(json, R1)
        after == At(json, v.index)
        R2 == Touch(v, v.index)
        R3 == IF after # "]" THEN Advance(R2, 1) ELSE R2
        added == add_child(R3.heap, R3.heap.cells[array], v.cell)
    IN  IF ch = FAULT THEN Raise(R1, "fault")
        ELSE IF ch = "]" THEN [Advance(R1, 1) EXCEPT !.cell = array]
        ELSE IF v.exc # "none" THEN v
        ELSE IF after = FAULT THEN Raise(R2, "fault")
        ELSE ArrayLoop(json, [R3 EXCEPT !.heap = added], array)

\* static Json parse_array(std::string &json, size_t &index)
parse_array(json, R) ==
    LET array == ProxyOf(R.heap, EmptyArray)
    IN  ArrayLoop(json, [Advance(R, 1) EXCEPT !.heap = array.heap], array.cell)

\* static Json parse_recursively(std::string &json, size_t &index)
parse_recursively(json, R) ==
    LET ch == At(json, R.index)
        R1 == [Touch(R, R.index) EXCEPT !.vpos = @ \cup {R.index}]
    IN  IF ch = FAULT THEN Raise(R1, "fault")
        ELSE IF ch = "{" THEN parse_object(json, R1)
        ELSE IF ch = "[" THEN parse_array(json, R1)
        ELSE parse_value(json, R1)

\* the first loop of parse_str: whitespace outside strings is dropped
isspace(ch) == ch = " "
RECURSIVE Clean(_, _)
Clean(str, inside) ==
    IF str = <<>> THEN <<>>
    ELSE LET in == IF Head(str) = QUOTE THEN ~inside ELSE inside
         IN  (IF isspace(Head(str)) /\ ~in THEN <<>> ELSE <<Head(str)>>)
                \o Clean(Tail(str), in)

\* static Json parse_str(std::string const &str), with the bytes that lie
\* after the cleaned string
parse_str(H, str, bytes) ==
    LET clean == Clean(str, FALSE)
    IN  parse_recursively([str |-> clean, mem |-> clean \o <<NUL>> \o bytes],
                          [exc |-> "none", heap |-> H, cell |-> 0, index |-> 0,
                           high |-> 0, vpos |-> {}])

(***************************************************************************)
(* Typed extraction: Json::to<T>.  Every operator returns                  *)
(* [exc, present, value]: the exception that leaves the call ("none" when  *)
(* it returns), whether the optional holds a value, and the value.         *)
(***************************************************************************)
Absent == [exc |-> "none", present |-> FALSE, value |-> 0]
Present(v) == [exc |-> "none", present |-> TRUE, value |-> v]
Thrown(exc) == [exc |-> exc, present |-> FALSE, value |-> 0]

\* the whitespace std::stol and std::stod skip first
RECURSIVE SkipSpace(_)
SkipSpace(text) ==
    IF text # <<>> /\ isspace(Head(text)) THEN SkipSpace(Tail(text)) ELSE text

\* the digits a text begins with
RECURSIVE LeadDigits(_)
LeadDigits(text) ==
    IF text # <<>> /\ Head(text) \in Digits
    THEN <<Head(text)>> \o LeadDigits(Tail(text))
    ELSE <<>>

Signed(text) == text # <<>> /\ Head(text) \in {"-", "+"}
Unsigned(text) == IF Signed(text) THEN Tail(text) ELSE text

\* std::stol(text): [exc, neg, digits].  std::invalid_argument when no digit
\* can be converted, std::out_of_range outside [LONG_MIN, LONG_MAX].
LongMinDigits == <<"9", "2", "2", "3", "3", "7", "2", "0", "3", "6", "8", "5", "4",
                   "7", "7", "5", "8", "0", "8">>
stol(text) ==
    LET t == SkipSpace(text)
        neg == t # <<>> /\ Head(t) = "-"
        d == LeadDigits(Unsigned(t))
        mag == StripZeros(d)
    IN  IF d = <<>> THEN [exc |-> "invalid_argument", neg |-> FALSE, digits |-> <<>>]
        ELSE IF ~(FitsLong(d) \/ (neg /\ mag = LongMinDigits))
             THEN [exc |-> "out_of_range", neg |-> FALSE, digits |-> <<>>]
        ELSE [exc |-> "none", neg |-> neg, digits |-> mag]

DigitValue(ch) == CHOOSE v \in 0..9 : <<"0", "1", "2", "3", "4", "5", "6", "7", "8", "9">>[v + 1] = ch

\* the low 32 bits of a decimal numeral, as two 16-bit halves
RECURSIVE Low32(_, _)
Low32(digits, acc) ==
    IF digits = <<>> THEN acc
    ELSE LET lo == acc.lo * 10 + DigitValue(Head(digits))
             hi == acc.hi * 10 + (lo \div 65536)
         IN  Low32(Tail(digits), [hi |-> hi % 65536, lo |-> lo % 65536])

\* std::optional<int> result; result = <long>: the long narrowed to 32 bits
NarrowToInt(neg, digits) ==
    LET u == Low32(digits, [hi |-> 0, lo |-> 0])
        n == IF ~neg \/ (u.hi = 0 /\ u.lo = 0) THEN u
             ELSE [hi |-> (65535 - u.hi + (IF u.lo = 0 THEN 1 ELSE 0)) % 65536,
                   lo |-> (65536 - u.lo) % 65536]
    IN  IF n.hi >= 32768 THEN (n.hi - 65536) * 65536 + n.lo
        ELSE n.hi * 65536 + n.lo

\* std::optional<long> to<long>() const: only std::invalid_argument is caught
to_long(H, root) ==
    LET n == NodeOf(H, root)
        r == stol(n.value[1])
    IN  IF ~is_leaf(n) THEN Absent
        ELSE IF n.value = <<>> THEN Absent
        ELSE IF r.exc = "invalid_argument" THEN Absent
        ELSE IF r.exc # "none" THEN Thrown(r.exc)
        ELSE Present(NarrowToInt(r.neg, r.digits))

\* std::optional<int> to<int>() const { return to<long>(); }
to_int(H, root) == to_long(H, root)

\* std::optional<short> to<short>() const { return to<long>(); }: 16 bits
to_short(H, root) ==
    LET r == to_long(H, root)
        low == ((r.value % 65536) + 65536) % 65536
    IN  IF ~r.present THEN r
        ELSE Present(IF low >= 32768 THEN low - 65536 ELSE low)

\* the value of a numeral of at most four digits; 10000 for a longer one
RECURSIVE Small(_, _)
Small(digits, acc) ==
    IF digits = <<>> THEN acc
    ELSE IF acc >= 1000 THEN 10000
    ELSE Small(Tail(digits), acc * 10 + DigitValue(Head(digits)))

RECURSIVE LeadZeros(_)
LeadZeros(d) == IF d # <<>> /\ Head(d) = "0" THEN 1 + LeadZeros(Tail(d)) ELSE 0

\* std::stod(text): [exc, text], text the decimal numeral converted (sign,
\* digits, fraction, exponent).  std::invalid_argument when nothing can be
\* converted; std::out_of_range when the decimal exponent of the value is
\* above 308 (overflow) or below -323 (underflow).
stod(text) ==
    LET t == SkipSpace(text)
        body == Unsigned(t)
        whole == LeadDigits(body)
        r1 == SubSeq(body, Len(whole) + 1, Len(body))
        frac == IF r1 # <<>> /\ Head(r1) = "." THEN LeadDigits(Tail(r1)) ELSE <<>>
        dot == r1 # <<>> /\ Head(r1) = "." /\ (whole # <<>> \/ frac # <<>>)
        r2 == IF dot THEN SubSeq(r1, Len(frac) + 2, Len(r1)) ELSE r1
        e1 == IF r2 # <<>> /\ Head(r2) \in {"e", "E"} THEN Tail(r2) ELSE <<>>
        edigits == LeadDigits(Unsigned(e1))
        eneg == e1 # <<>> /\ Head(e1) = "-"
        e == (IF eneg THEN -1 ELSE 1) * Small(StripZeros(edigits), 0)
        zero == \A i \in 1..Len(whole \o frac) : (whole \o frac)[i] = "0"
        lead == StripZeros(whole)
        dexp == IF lead # <<"0">> /\ lead # <<>> THEN Len(lead) - 1 + e
                ELSE e - LeadZeros(frac) - 1
        used == Len(t) - Len(body) + Len(whole) + (IF dot THEN 1 + Len(frac) ELSE 0)
                   + (IF edigits # <<>> THEN Len(r2) - Len(Unsigned(e1)) + Len(edigits)
                      ELSE 0)
    IN  IF whole = <<>> /\ frac = <<>>
        THEN [exc |-> "invalid_argument", text |-> <<>>, dexp |-> 0]
        ELSE IF ~zero /\ (dexp > 308 \/ dexp < -323)
             THEN [exc |-> "out_of_range", text |-> <<>>, dexp |-> 0]
        ELSE [exc |-> "none", text |-> SubSeq(t, 1, used),
              dexp |-> IF zero THEN 0 ELSE dexp]

\* std::optional<double> to<double>() const: only std::invalid_argument is caught
to_double(H, root) ==
    LET n == NodeOf(H, root)
        r == stod(n.value[1])
    IN  IF ~is_leaf(n) THEN Absent
        ELSE IF n.value = <<>> THEN Absent
        ELSE IF r.exc = "invalid_argument" THEN Absent
        ELSE IF r.exc # "none" THEN Thrown(r.exc)
        ELSE Present(r.text)

\* std::optional<float> to<float>() const { return to<double>(); }
\* The conversion of a double beyond the range of float is undefined: wide is
\* what the build makes of it.
FloatOutcomes == {<<"i", "n", "f">>, <<"0">>}
to_float(H, root, wide) ==
    LET r == to_double(H, root)
        d == stod(NodeOf(H, root).value[1])
    IN  IF r.present /\ d.dexp > 38 THEN Present(wide) ELSE r

\* std::optional<std::string> to<std::string>() const
to_string(H, root) ==
    LET n == NodeOf(H, root)
    IN  IF is_leaf(n) /\ n.value # <<>> THEN Present(n.value[1]) ELSE Absent

(***************************************************************************)
(* The program: declarations of, and statements on, the Json variables of  *)
(* Names.  Each action is one C++ statement; the temporaries of the        *)
(* statement are gone when it ends (Collect).                              *)
(***************************************************************************)
Keys == {<<"x">>, <<"y">>}
Indices == {0, 1}
Subscripts == {Key(k) : k \in Keys} \cup {Idx(i) : i \in Indices}
CtorValues == {NumberLeaf(<<"5">>), BoolLeaf(TRUE)}           \* Json x(v)
AssignValues == {NumberLeaf(<<"5">>), StringLeaf(<<"s">>)}     \* x = v
Prims == {NumberLeaf(<<"5">>)}                                 \* v as a Json argument
Vectors == {<<NumberLeaf(<<"7">>)>>}

\* the subscript chains of the statements: x, x[s], x[k1][k2]
Paths == {<<>>} \cup {<<s>> : s \in Subscripts}
            \cup {<<Key(k1), Key(k2)>> : k1 \in Keys, k2 \in Keys}

Heap == [cells |-> cells, nodes |-> nodes]
Declared == {x \in Names : jsons[x] # 0}

\* an argument of type Json: a variable (copied, so the same cell) or a
\* primitive converted by Json(T value)
Var(x) == [var |-> x, leaf |-> BaseNode]
Prim(leaf) == [var |-> "", leaf |-> leaf]
AllOperands == {Var(x) : x \in Names} \cup {Prim(leaf) : leaf \in Prims}
Operands == {v \in AllOperands : v.var = "" \/ v.var \in Declared}
Operand(H, v) ==
    IF v.var # "" THEN ProxyCopy(H, jsons[v.var]) ELSE Json_of_value(H, v.leaf)

RECURSIVE OperandCells(_, _)
OperandCells(H, list) ==
    IF list = <<>> THEN [heap |-> H, list |-> <<>>]
    ELSE LET r == Operand(H, Head(list))
             rest == OperandCells(r.heap, Tail(list))
         IN  [heap |-> rest.heap, list |-> <<r.cell>> \o rest.list]

ParserIdle == UNCHANGED <<input, pc, outcome>>

\* the end of a statement: the state it leaves, within the bounds of the model
Commit(H, js) ==
    LET G == Collect(H, js)
    IN  /\ Len(G.nodes) <= MaxNodes
        /\ Len(G.cells) <= MaxCells
        /\ cells' = G.cells
        /\ nodes' = G.nodes
        /\ jsons' = G.jsons

Declare(x, r) == Commit(r.heap, [jsons EXCEPT ![x] = r.cell])

\* the history of a declaration: "copy", "clone", "index" (an indexed read)
\* or "array" (Json::array over it) of a variable, or "other"
How(by, of) == [by |-> by, of |-> of]
NotMade == How("none", "")
Made(x, by, of) == made' = [made EXCEPT ![x] = How(by, of)]

\* Json x;
DefaultCtor(x) ==
    /\ pc = "idle" /\ x \notin Declared
    /\ Declare(x, Json_default(Heap))
    /\ Made(x, "other", "") /\ ParserIdle

\* Json x(5);  Json x(true);
ValueCtor(x, leaf) ==
    /\ pc = "idle" /\ x \notin Declared
    /\ Declare(x, Json_of_value(Heap, leaf))
    /\ Made(x, "other", "") /\ ParserIdle

\* Json x(std::vector<int>{7});
VectorCtor(x, items) ==
    /\ pc = "idle" /\ x \notin Declared
    /\ Declare(x, Json_of_vector(Heap, items))
    /\ Made(x, "other", "") /\ ParserIdle

\* Json x{{key, v}};
ListCtor(x, key, v) ==
    /\ pc = "idle" /\ x \notin Declared /\ v \in Operands
    /\ LET arg == Operand(Heap, v)
       IN  Declare(x, Json_of_list(arg.heap, <<[key |-> key, cell |-> arg.cell]>>))
    /\ Made(x, "other", "") /\ ParserIdle

\* a variant of the copy constructor that takes a deep copy
Json_copy_deep(H, other) ==
    IF AcyclicFrom(H, other) THEN Proxy_clone(H, other) ELSE ProxyCopy(H, other)

\* a variant of the copy constructor that shares the node under a cell of its own
Json_copy_cell(H, other) == AllocCell(H, H.cells[other])

\* Json(const Json &other) : root(other.root)
Json_copy(H, other) == ProxyCopy(H, other)

\* Json x = y;
CopyCtor(x, y) ==
    /\ pc = "idle" /\ x \notin Declared /\ y \in Declared
    /\ Declare(x, Json_copy(Heap, jsons[y]))
    /\ Made(x, "copy", y) /\ ParserIdle

\* Json x = y.clone();   the recursion of clone returns only on an acyclic graph
CloneCtor(x, y) ==
    /\ pc = "idle" /\ x \notin Declared /\ y \in Declared
    /\ AcyclicFrom(Heap, jsons[y])
    /\ Declare(x, Json_clone(Heap, jsons[y]))
    /\ Made(x, "clone", y) /\ ParserIdle

\* Json x = y[s];
SubscriptCtor(x, y, s) ==
    /\ pc = "idle" /\ x \notin Declared /\ y \in Declared
    /\ Declare(x, Json_subscript(Heap, jsons[y], s))
    /\ (IF s.tag = "idx" THEN Made(x, "index", y) ELSE Made(x, "other", ""))
    /\ ParserIdle

\* Json x = Json::array({u});   Json x = Json::array({5, u});
ArrayFactory(x, list) ==
    /\ pc = "idle" /\ x \notin Declared
    /\ \A i \in 1..Len(list) : list[i] \in Operands
    /\ LET args == OperandCells(Heap, list)
       IN  Declare(x, Json_array(args.heap, args.list))
    /\ (IF \E i \in 1..Len(list) : list[i].var # ""
        THEN Made(x, "array", list[CHOOSE i \in 1..Len(list) : list[i].var # ""].var)
        ELSE Made(x, "other", ""))
    /\ ParserIdle

\* x[s1][s2] = y;   x = y;
Assign(x, path, y) ==
    /\ pc = "idle" /\ x \in Declared /\ y \in Declared
    /\ LET target == Eval(Heap, jsons[x], path)
       IN  Commit(Json_assign(target.heap, target.cell, jsons[y]), jsons)
    /\ UNCHANGED made /\ ParserIdle

\* x[s1][s2] = 5;   x = "s";
AssignValue(x, path, leaf) ==
    /\ pc = "idle" /\ x \in Declared
    /\ LET target == Eval(Heap, jsons[x], path)
       IN  Commit(Json_assign_value(target.heap, target.cell, leaf), jsons)
    /\ UNCHANGED made /\ ParserIdle

\* x = std::vector<int>{7};
AssignVector(x, items) ==
    /\ pc = "idle" /\ x \in Declared
    /\ Commit(Json_assign_vector(Heap, jsons[x], items), jsons)
    /\ UNCHANGED made /\ ParserIdle

\* x[s];   a subscript expression whose value is only read
Read(x, s) ==
    /\ pc = "idle" /\ x \in Declared
    /\ Commit(Json_subscript(Heap, jsons[x], s).heap, jsons)
    /\ UNCHANGED made /\ ParserIdle

NoOutcome == [exc |-> "none", index |-> 0, high |-> 0, vpos |-> {}, size |-> 0]

Init ==
    /\ cells = <<>>
    /\ nodes = <<>>
    /\ jsons = [x \in Names |-> 0]
    /\ made = [x \in Names |-> NotMade]
    /\ input = <<>>
    /\ pc = "idle"
    /\ outcome = NoOutcome

Lists == {<<u>> : u \in AllOperands}
            \cup {<<Prim(leaf), Var(x)>> : leaf \in Prims, x \in Names}

Next ==
    \/ \E x \in Names : DefaultCtor(x)
    \/ \E x \in Names, leaf \in CtorValues : ValueCtor(x, leaf)
    \/ \E x \in Names, items \in Vectors : VectorCtor(x, items)
    \/ \E x \in Names, key \in Keys, v \in AllOperands : ListCtor(x, key, v)
    \/ \E x \in Names, y \in Names : CopyCtor(x, y)
    \/ \E x \in Names, y \in Names : CloneCtor(x, y)
    \/ \E x \in Names, y \in Names, s \in Subscripts : SubscriptCtor(x, y, s)
    \/ \E x \in Names, list \in Lists : ArrayFactory(x, list)
    \/ \E x \in Names, path \in Paths, y \in Names : Assign(x, path, y)
    \/ \E x \in Names, path \in Paths, leaf \in AssignValues : AssignValue(x, path, leaf)
    \/ \E x \in Names, items \in Vectors : AssignVector(x, items)
    \/ \E x \in Names, s \in Subscripts : Read(x, s)

Spec == Init /\ [][Next]_vars

(***************************************************************************)
(* The parsing program:                                                    *)
(*     std::ostringstream os; os << a; input = os.str();     (Serialize)   *)
(*     Json b = Json::parse_str(input);                      (ParseStr)    *)
(* started either on a text (pc = "ready") or on a value a built by the    *)
(* constructors (pc = "built").                                            *)
(***************************************************************************)
MaxWidth == 2       \* elements of a built array

Alphabet == {"{", "}", "[", "]", QUOTE, ":", ",", "1", "a"}
Texts == UNION {[1..n -> Alphabet] : n \in 0..MaxLen}
Examples == {
    <<"{", QUOTE, "a", QUOTE, ":", "}">>,
    <<"{", QUOTE, "a", QUOTE, ":", "1", "}">>,
    <<"{", QUOTE, "a", QUOTE, ":", "1", ",", "}">>,
    <<"{", QUOTE, "a", QUOTE, ";", "1", "}">>,
    <<"{", QUOTE, "a", QUOTE, ":", "1", "}", "x">>,
    <<"{", QUOTE, "a", QUOTE, ":", "1">>,
    <<"{", QUOTE, "a", QUOTE, ":", "x", "}">>,
    <<"{", QUOTE, "a", QUOTE, ":", "t", "r", "u", "}">>,
    <<"{", " ", QUOTE, "a", " ", "b", QUOTE, " ", ":", " ", "t", "r", "u", "e", " ", "}">>,
    <<"[", "f", "a", "l", "s", "e", ",", " ", "1", ".", "5", "]">>,
    <<"{", QUOTE, "a", QUOTE, ":", "1", ",", QUOTE, "b", QUOTE, ":", "[", "2", ",", "3", "]", "}">>,
    <<"{", QUOTE, "b", QUOTE, ":", "1", ",", QUOTE, "a", QUOTE, ":", "2", ",", QUOTE, "b", QUOTE, ":", "3", "}">>,
    <<"{", QUOTE, "z", QUOTE, ":", "1", ",", QUOTE, "a", QUOTE, ":", "2", ",", QUOTE, "m", QUOTE, ":", "3", "}">>,
    <<"0", "0", "7">>,
    <<"9", "2", "2", "3", "3", "7", "2", "0", "3", "6", "8", "5", "4", "7", "7", "5", "8", "0", "8">>,
    <<"n", "u", "l", "l">>,
    <<"[", "1", ";", "1", "]">> }
Inputs == Texts \cup Examples

\* what may lie after the terminator of the cleaned string
Beyond == {<<NUL, NUL>>, <<"]", "]">>, <<"}", "}">>, <<QUOTE, QUOTE>>}

\* the values the round trip starts from, as trees
RTLeaves == {StringLeaf(<<>>), StringLeaf(<<"s">>), StringLeaf(<<"a", " ", ",", "}">>),
             BoolLeaf(TRUE), BoolLeaf(FALSE),
             NumberLeaf(<<"0">>), NumberLeaf(<<"5">>), NumberLeaf(LongMax),
             NumberLeaf(<<"9", "2", "2", "3", "3", "7", "2", "0", "3", "6", "8", "5",
                          "4", "7", "7", "5", "8", "0", "8">>)}
RTKeys == {<<"x">>, <<"y", " ">>}
KeySeqs == {<<>>} \cup {<<k>> : k \in RTKeys}
              \cup {q \in {<<k1, k2>> : k1 \in RTKeys, k2 \in RTKeys} : StrLess(q[1], q[2])}
ObjectsOver(C) ==
    UNION {{MkNode("Object", <<>>, "none",
                   [i \in 1..Len(ks) |-> [key |-> ks[i], val |-> vs[i]]], <<>>) :
               vs \in [1..Len(ks) -> C]} : ks \in KeySeqs}
ArraysOver(C) ==
    UNION {{MkNode("Array", <<>>, "none", <<>>, vs) : vs \in [1..n -> C]} :
               n \in 0..MaxWidth}
Level1 == RTLeaves \cup ObjectsOver(RTLeaves) \cup ArraysOver(RTLeaves)
Mid == {NumberLeaf(<<"5">>), StringLeaf(<<"s">>), EmptyObject, EmptyArray,
        MkNode("Object", <<>>, "none", <<[key |-> <<"x">>, val |-> NumberLeaf(<<"5">>)]>>, <<>>),
        MkNode("Array", <<>>, "none", <<>>, <<BoolLeaf(TRUE), NumberLeaf(<<"5">>)>>)}
RTTrees == Level1 \cup ObjectsOver(Mid) \cup ArraysOver(Mid)

\* a tree built with the constructors: Json(v), Json::array({..}), Json{{k, v}, ..}
RECURSIVE Build(_, _)
RECURSIVE BuildAll(_, _)
BuildAll(H, trees) ==
    IF trees = <<>> THEN [heap |-> H, list |-> <<>>]
    ELSE LET r == Build(H, Head(trees))
             rest == BuildAll(r.heap, Tail(trees))
         IN  [heap |-> rest.heap, list |-> <<r.cell>> \o rest.list]
Build(H, t) ==
    LET vals == BuildAll(H, [i \in 1..Len(t.kids) |-> t.kids[i].val])
        elems == BuildAll(H, t.elems)
    IN  IF t.kind = "Object"
        THEN Json_of_list(vals.heap, [i \in 1..Len(t.kids) |->
                                         [key |-> t.kids[i].key, cell |-> vals.list[i]]])
        ELSE IF t.kind = "Array" THEN Json_array(elems.heap, elems.list)
        ELSE Json_of_value(H, t)

InitParse ==
    /\ made = [x \in Names |-> NotMade]
    /\ outcome = NoOutcome
    /\ \/ /\ pc = "ready"
          /\ input \in Inputs
          /\ cells = <<>>
          /\ nodes = <<>>
          /\ jsons = [x \in Names |-> 0]
       \/ /\ pc = "built"
          /\ input = <<>>
          /\ \E t \in RTTrees :
                LET r == Build(EmptyHeap, t)
                    G == Collect(r.heap, [x \in Names |-> IF x = "a" THEN r.cell ELSE 0])
                IN  cells = G.cells /\ nodes = G.nodes /\ jsons = G.jsons

\* std::ostringstream os; os << a; input = os.str();
Serialize ==
    /\ pc = "built"
    /\ input' = Dump(Heap, jsons["a"])
    /\ pc' = "ready"
    /\ UNCHANGED <<cells, nodes, jsons, made, outcome>>

\* Json b = Json::parse_str(input);
ParseStr ==
    /\ pc = "ready"
    /\ \E bytes \in Beyond :
          LET R == parse_str(Heap, input, bytes)
              G == IF R.exc = "none"
                   THEN Collect(R.heap, [jsons EXCEPT !["b"] = R.cell])
                   ELSE [cells |-> cells, nodes |-> nodes, jsons |-> jsons]
          IN  /\ cells' = G.cells
              /\ nodes' = G.nodes
              /\ jsons' = G.jsons
              /\ outcome' = [exc |-> R.exc, index |-> R.index, high |-> R.high,
                             vpos |-> R.vpos, size |-> Len(Clean(input, FALSE))]
    /\ pc' = "done"
    /\ UNCHANGED <<input, made>>

NextParse == Serialize \/ ParseStr

SpecParse == InitParse /\ [][NextParse]_vars


(***************************************************************************)
(* The extracting program:                                                 *)
(*     Json a = ...;  auto r = a.to<T>();                                  *)
(* started on a value a built by the constructors, on the null Json an     *)
(* out-of-range read yields, or on the child a read of a missing key makes.*)
(***************************************************************************)
ToLeaves == {StringLeaf(<<>>), StringLeaf(<<"s">>), StringLeaf(<<"1", "2">>),
             StringLeaf(<<"1", "2", "s">>), StringLeaf(<<" ", "7">>),
             StringLeaf(<<"1", ".", "5">>), StringLeaf(<<"1", "e", "9", "9", "9">>),
             StringLeaf(<<"1", "e", "9", "9">>),
             StringLeaf(<<"9", "9", "9", "9", "9", "9", "9", "9", "9", "9",
                          "9", "9", "9", "9", "9", "9", "9", "9", "9", "9">>),
             NumberLeaf(<<"5">>), NumberLeaf(<<"-", "3">>), NumberLeaf(<<"7", "0", "0", "0", "0">>),
             NumberLeaf(<<"4", "2", "9", "4", "9", "6", "7", "2", "9", "7">>),
             NumberLeaf(<<"1", ".", "5", "0", "0", "0", "0", "0">>),
             NumberLeaf(LongMax), NumberLeaf(LongMinDigits),
             NumberLeaf(<<"-">> \o LongMinDigits),
             StringLeaf(<<"+", "4">>), StringLeaf(<<"0", "0", "7">>), StringLeaf(<<".", "5">>),
             StringLeaf(<<"-">>), StringLeaf(<<"e", "5">>), StringLeaf(<<"1", ".">>),
             NumberLeaf(<<"3", "2", "7", "6", "8">>),
             NumberLeaf(<<"2", "1", "4", "7", "4", "8", "3", "6", "4", "8">>),
             NumberLeaf(<<"-", "2", "1", "4", "7", "4", "8", "3", "6", "4", "9">>),
             BoolLeaf(TRUE), BoolLeaf(FALSE)}
ToTrees ==
    ToLeaves \cup ObjectsOver({NumberLeaf(<<"5">>), StringLeaf(<<"s">>)})
             \cup ArraysOver({NumberLeaf(<<"5">>), StringLeaf(<<"s">>)})

\* the root cells the extraction starts on
ToRoots ==
    {Build(EmptyHeap, t) : t \in ToTrees}
        \cup {Json_subscript_idx(ProxyOf(EmptyHeap, EmptyArray).heap, 1, 0),
              Json_subscript_key(Json_default(EmptyHeap).heap, 1, <<"x">>)}

InitTo ==
    /\ made = [x \in Names |-> NotMade]
    /\ outcome = NoOutcome
    /\ pc = "built"
    /\ input = <<>>
    /\ \E r \in ToRoots :
          LET G == Collect(r.heap, [x \in Names |-> IF x = "a" THEN r.cell ELSE 0])
          IN  cells = G.cells /\ nodes = G.nodes /\ jsons = G.jsons

Extracted(r) ==
    /\ pc = "built"
    /\ outcome' = r
    /\ pc' = "extracted"
    /\ UNCHANGED <<cells, nodes, jsons, made, input>>

\* auto r = a.to<long>();  and so on
ToLong == Extracted(to_long(Heap, jsons["a"]))
ToInt == Extracted(to_int(Heap, jsons["a"]))
ToShort == Extracted(to_short(Heap, jsons["a"]))
ToDouble == Extracted(to_double(Heap, jsons["a"]))
ToFloat == \E wide \in FloatOutcomes : Extracted(to_float(Heap, jsons["a"], wide))
ToStdString == Extracted(to_string(Heap, jsons["a"]))

NextTo == ToLong \/ ToInt \/ ToShort \/ ToDouble \/ ToFloat \/ ToStdString

SpecTo == InitTo /\ [][NextTo]_vars

(***************************************************************************)
(* Properties of the program of Json variables (Spec).                     *)
(***************************************************************************)
Root(x) == NodeOf(Heap, jsons[x])
Value(x) == Unfold(Heap, jsons[x])
Below(x) == ReachCells(Heap, {jsons[x]})
IsCopy(b, a) == made[b] = How("copy", a)
IsClone(c, a) == made[c] = How("clone", a)

\* the tree {"x": v}
ObjectTree(key, v) == [EmptyObject EXCEPT !.kids = <<[key |-> key, val |-> v]>>]

\* a[key] and then b[key], as two reads in a row: the handles they yield
ReadBoth(a, b, key) ==
    LET first == Json_subscript_key(Heap, jsons[a], key)
        second == Json_subscript_key(first.heap, jsons[b], key)
    IN  [heap |-> second.heap, first |-> first.cell, second |-> second.cell]

\* C1: when b was copy-constructed from a, whatever has been assigned through
\* subscripts of either since, a[key] and b[key] read the same value for every
\* key while the root is an Object, and a and b serialize to the same text.
C1_CopySeesSubscriptWrites ==
    \A a \in Names, b \in Names : IsCopy(b, a) =>
        /\ key_indexable(Root(a)) =>
               \A key \in Keys :
                   LET r == ReadBoth(a, b, key)
                   IN  /\ r.first = r.second
                       /\ NodeOf(r.heap, r.first) = NodeOf(r.heap, r.second)
        /\ AcyclicFrom(Heap, jsons[a]) =>
               /\ AcyclicFrom(Heap, jsons[b])
               /\ Dump(Heap, jsons[a]) = Dump(Heap, jsons[b])

\* C1 witness: a copy pair whose Object holds "s" under "x", a value only a
\* subscript assignment puts there
C1_Witness ==
    \E a \in Names, b \in Names :
        /\ IsCopy(b, a)
        /\ AcyclicFrom(Heap, jsons[a])
        /\ Value(a) = ObjectTree(<<"x">>, StringLeaf(<<"s">>))
        /\ Dump(Heap, jsons[b]) = <<"{", QUOTE, "x", QUOTE, ":", " ", QUOTE, "s", QUOTE, "}">>

Separate(x, y) ==
    /\ Below(x) \cap Below(y) = {}
    /\ ReachNodes(Heap, {jsons[x]}) \cap ReachNodes(Heap, {jsons[y]}) = {}

\* a statement that mutates through x and names no other variable
Through(x) ==
    \/ \E path \in Paths, leaf \in AssignValues : AssignValue(x, path, leaf)
    \/ \E items \in Vectors : AssignVector(x, items)
    \/ \E s \in Subscripts : Read(x, s)
    \/ \E path \in Paths : Assign(x, path, x)

\* y shows after the step the value it showed before it
Kept(y) ==
    AcyclicFrom(Heap, jsons[y]) =>
        (AcyclicFrom(Heap, jsons[y])' /\ Value(y)' = Value(y))

\* C2: c = a.clone() yields a value equal to a that shares no cell and no node
\* with a at any depth; and while c and a are separate, no statement that
\* mutates through one of them changes the other or joins them.  (The second
\* part is stated by its contrapositive: a step that changes y, or joins the
\* two, is not a mutation through x.)
C2_CloneIsIndependent ==
    [][\A x \in Names, y \in Names :
          /\ CloneCtor(x, y) => (Separate(x, y)' /\ Value(x)' = Value(y) /\ Kept(y))
          /\ ((IsClone(x, y) \/ IsClone(y, x)) /\ Separate(x, y)
                 /\ ~(Separate(x, y)' /\ Kept(y)))
                => ~Through(x)]_vars

\* C2 witness: a clone pair that has diverged under "x": one side holds 5,
\* the other "s"
C2_Witness ==
    \E a \in Names, c \in Names :
        /\ IsClone(c, a) /\ Separate(c, a)
        /\ AcyclicFrom(Heap, jsons[a]) /\ AcyclicFrom(Heap, jsons[c])
        /\ Value(a) = ObjectTree(<<"x">>, NumberLeaf(<<"5">>))
        /\ Value(c) = ObjectTree(<<"x">>, StringLeaf(<<"s">>))

\* C3: when b was copy-constructed from a, a and b refer to the same node and
\* show the same value after every whole-value assignment to either.
C3_CopySeesWholeAssignment ==
    \A a \in Names, b \in Names : IsCopy(b, a) =>
        /\ Heap.cells[jsons[a]] = Heap.cells[jsons[b]]
        /\ Root(a) = Root(b)

\* C3 witness: a copy pair whose root is the string leaf "s", a root only a
\* whole-value assignment gives to a constructed variable
C3_Witness ==
    \E a \in Names, b \in Names :
        /\ IsCopy(b, a)
        /\ Root(a) = StringLeaf(<<"s">>) /\ Root(b) = StringLeaf(<<"s">>)

\* C4: on a Json j holding the empty Object, j["x"]["y"] = 5 leaves j equal
\* to {"x": {"y": 5}}.
C4_ChainedWriteBuildsObjects ==
    [][\A j \in Names :
          (/\ j \in Declared
           /\ Root(j) = EmptyObject
           /\ AssignValue(j, <<Key(<<"x">>), Key(<<"y">>)>>, NumberLeaf(<<"5">>)))
          => Value(j)' = ObjectTree(<<"x">>, ObjectTree(<<"y">>, NumberLeaf(<<"5">>)))]_vars

\* C6: after any sequence of the public operations no node is reachable
\* from itself.
C6_Acyclic == Acyclic(Heap)

\* the number of the three classification queries a node answers with true
Answers(n) ==
    (IF is_leaf(n) THEN 1 ELSE 0) + (IF indexable(n) THEN 1 ELSE 0)
        + (IF key_indexable(n) THEN 1 ELSE 0)

\* C7: every node that is the root of a Json or a child of an Object or of an
\* Array answers exactly one of is_leaf, indexable and key_indexable with true.
C7_ExactlyOneKind ==
    \A node \in DOMAIN nodes : Answers(nodes[node]) = 1

ArrayKept(y) ==
    /\ indexable(Root(y))'
    /\ Len(Root(y).elems)' = Len(Root(y).elems)
    /\ Kept(y)

\* C10: with y an Array of n elements and i >= n, reading y[i] yields a null
\* leaf that no variable reached before and leaves y unchanged, and an
\* assignment through y[i] leaves y unchanged.  (The second part is stated by
\* its contrapositive: a step that changes y is no such read or assignment.)
C10_OutOfRangeRead ==
    [][\A y \in Names, i \in Indices :
          (y \in Declared /\ indexable(Root(y)) /\ i >= Len(Root(y).elems)) =>
              /\ \A x \in Names :
                     SubscriptCtor(x, y, Idx(i)) =>
                         /\ Root(x)' = NullLeaf
                         /\ jsons'[x] \notin Below(y)'
                         /\ Heap.cells[jsons[x]]' \notin ReachNodes(Heap, {jsons[y]})'
                         /\ ArrayKept(y)
              /\ ~ArrayKept(y) =>
                     ~(\/ Read(y, Idx(i))
                       \/ \E leaf \in AssignValues : AssignValue(y, <<Idx(i)>>, leaf)
                       \/ \E z \in Names : Assign(y, <<Idx(i)>>, z))]_vars

\* C10 witness: x holds the null leaf of an out-of-range read beside an Array
\* that does not reach it
C10_Witness ==
    \E x \in Names, y \in Names :
        /\ x \in Declared /\ y \in Declared
        /\ Root(x) = NullLeaf
        /\ indexable(Root(y)) /\ Len(Root(y).elems) = 1
        /\ jsons[x] \notin Below(y)

(***************************************************************************)
(* Properties of the parsing program (SpecParse).                          *)
(***************************************************************************)
Cleaned == Clean(input, FALSE)
Returned == pc = "done" /\ outcome.exc = "none" /\ jsons["b"] # 0
NoTree == pc = "done" /\ outcome.exc # "none" /\ jsons["b"] = 0

\* C5: for a built from Objects, Arrays, strings and keys without a quote,
\* booleans and unsigned integers, parse_str of the serialized text of a
\* returns a tree equal to a: keys, element order, leaf text and leaf mode.
C5_RoundTrip ==
    (pc = "done" /\ jsons["a"] # 0) =>
        /\ Returned
        /\ Unfold(Heap, jsons["b"]) = Unfold(Heap, jsons["a"])

\* the integer leaves of a tree are within long
RECURSIVE WithinLong(_)
WithinLong(t) ==
    /\ (t.mode = "numeric") => FitsLong(t.value[1])
    /\ \A i \in 1..Len(t.kids) : WithinLong(t.kids[i].val)
    /\ \A i \in 1..Len(t.elems) : WithinLong(t.elems[i])

\* The round trip holds for every built tree whose integer leaves are within
\* long: the leaves above LONG_MAX are the only ones parse_str rejects.
RoundTripWithinLong ==
    (pc = "done" /\ jsons["a"] # 0 /\ WithinLong(Unfold(Heap, jsons["a"]))) =>
        /\ Returned
        /\ Unfold(Heap, jsons["b"]) = Unfold(Heap, jsons["a"])

\* the character of the cleaned text at position i, counted from 0
Lookahead(i) == IF i < Len(Cleaned) THEN Cleaned[i + 1] ELSE NUL

\* position i of the cleaned text begins no value form
CannotBegin(i) ==
    /\ Lookahead(i) \notin {"{", "[", QUOTE} \cup Digits
    /\ substr(Cleaned, i, 4) # <<"t", "r", "u", "e">>
    /\ substr(Cleaned, i, 5) # <<"f", "a", "l", "s", "e">>

\* C8: when the parser has reached a value position of the text whose
\* lookahead character begins no value, parse_str raises MalformedJson and
\* returns no tree.  (A value position past the end of the text has no
\* lookahead character; there too no tree is returned.)
C8_NoValueIsMalformed ==
    pc = "done" =>
        \A i \in outcome.vpos :
            /\ (i <= outcome.size /\ CannotBegin(i)) =>
                   (outcome.exc = "MalformedJson" /\ NoTree)
            /\ i > outcome.size => NoTree

\* C8 witness: {"a":} has been parsed, its value position 5 holds '}', and
\* the outcome is MalformedJson without a tree
C8_Witness ==
    /\ pc = "done"
    /\ input = <<"{", QUOTE, "a", QUOTE, ":", "}">>
    /\ 5 \in outcome.vpos /\ CannotBegin(5)
    /\ outcome.exc = "MalformedJson" /\ jsons["b"] = 0

\* The supported grammar, positions counted from 1; each recognizer yields
\* the position after what it recognizes, or 0.
Ch(s, p) == IF p >= 1 /\ p <= Len(s) THEN s[p] ELSE NUL
StringEnd(s, p) ==
    LET later == {q \in (p + 1)..Len(s) : s[q] = QUOTE}
    IN  IF Ch(s, p) # QUOTE \/ later = {} THEN 0
        ELSE (CHOOSE q \in later : \A r \in later : q <= r) + 1
RECURSIVE DigitsEnd(_, _)
DigitsEnd(s, p) == IF Ch(s, p) \in Digits THEN DigitsEnd(s, p + 1) ELSE p
NumberEnd(s, p) ==
    LET whole == DigitsEnd(s, p)
        frac == DigitsEnd(s, whole + 1)
    IN  IF whole = p THEN 0
        ELSE IF Ch(s, whole) # "." THEN whole
        ELSE IF frac = whole + 1 THEN 0 ELSE frac

RECURSIVE ValueEnd(_, _)
RECURSIVE MembersEnd(_, _)
RECURSIVE ElementsEnd(_, _)
\* "key":value , ... }
MembersEnd(s, p) ==
    LET k == StringEnd(s, p)
        v == IF k # 0 /\ Ch(s, k) = ":" THEN ValueEnd(s, k + 1) ELSE 0
    IN  IF v = 0 THEN 0
        ELSE IF Ch(s, v) = "}" THEN v + 1
        ELSE IF Ch(s, v) = "," THEN MembersEnd(s, v + 1)
        ELSE 0
\* value , ... ]
ElementsEnd(s, p) ==
    LET v == ValueEnd(s, p)
    IN  IF v = 0 THEN 0
        ELSE IF Ch(s, v) = "]" THEN v + 1
        ELSE IF Ch(s, v) = "," THEN ElementsEnd(s, v + 1)
        ELSE 0
ValueEnd(s, p) ==
    IF Ch(s, p) = "{"
    THEN (IF Ch(s, p + 1) = "}" THEN p + 2 ELSE MembersEnd(s, p + 1))
    ELSE IF Ch(s, p) = "["
    THEN (IF Ch(s, p + 1) = "]" THEN p + 2 ELSE ElementsEnd(s, p + 1))
    ELSE IF Ch(s, p) = QUOTE THEN StringEnd(s, p)
    ELSE IF Ch(s, p) \in Digits THEN NumberEnd(s, p)
    ELSE IF substr(s, p - 1, 4) = <<"t", "r", "u", "e">> THEN p + 4
    ELSE IF substr(s, p - 1, 5) = <<"f", "a", "l", "s", "e">> THEN p + 5
    ELSE 0
WellFormed(s) == ValueEnd(s, 1) = Len(s) + 1

\* C9: parse_str returns a tree only when the cleaned text is exactly one
\* well-formed value of the supported grammar; on every other text it ends
\* with an error and no tree.
C9_OnlyWellFormedParses ==
    pc = "done" =>
        /\ Returned => WellFormed(Cleaned)
        /\ ~WellFormed(Cleaned) => NoTree


\* y[i] is an indexed read that finds no element
Misses(y, i) ==
    /\ y \in Declared
    /\ indexable(Root(y)) => i >= Len(Root(y).elems)

\* x, declared as y[i], is a value of its own beside an unchanged y
FreshBeside(x, y) ==
    /\ jsons'[x] \notin Below(y)'
    /\ Heap.cells[jsons[x]]' \notin ReachNodes(Heap, {jsons[y]})'
    /\ Kept(y)

\* C13 as stated: y[i] is a fresh null Json, a leaf without value that
\* serializes as null and is not connected to y, both when y is an Array and
\* i is out of range and when y is not indexable.
C13_MissIsNull ==
    [][\A x \in Names, y \in Names, i \in Indices :
          (Misses(y, i) /\ SubscriptCtor(x, y, Idx(i))) =>
              /\ Root(x)' = NullLeaf
              /\ Dump(Heap, jsons[x])' = <<"n", "u", "l", "l">>
              /\ FreshBeside(x, y)]_vars

\* C13 amended: y[i] is a fresh value not connected to y: the null leaf,
\* serializing as null, when y is an Array and i is out of range; the empty
\* Object, serializing as {}, when y is not indexable.
C13_MissIsNullOrEmptyObject ==
    [][\A x \in Names, y \in Names, i \in Indices :
          (Misses(y, i) /\ SubscriptCtor(x, y, Idx(i))) =>
              /\ indexable(Root(y)) =>
                     (Root(x)' = NullLeaf /\ Dump(Heap, jsons[x])' = <<"n", "u", "l", "l">>)
              /\ ~indexable(Root(y)) =>
                     (Root(x)' = EmptyObject /\ Dump(Heap, jsons[x])' = <<"{", "}">>)
              /\ FreshBeside(x, y)]_vars

\* C13 witness: x was declared as an indexed read of the leaf y and holds an
\* empty Object of its own
C13_Witness ==
    \E x \in Names, y \in Names :
        /\ made[x] = How("index", y)
        /\ is_leaf(Root(y))
        /\ Root(x) = EmptyObject
        /\ jsons[x] \notin Below(y)

KeySet(n) == {n.kids[i].key : i \in 1..Len(n.kids)}

\* the members of Object n under the keys K, written in the order of the keys
RECURSIVE Members(_, _, _)
Members(H, n, K) ==
    IF K = {} THEN <<>>
    ELSE LET k == CHOOSE k \in K : \A j \in K : j = k \/ StrLess(k, j)
             child == n.kids[CHOOSE i \in 1..Len(n.kids) : n.kids[i].key = k].cell
         IN  <<QUOTE>> \o k \o <<QUOTE, ":", " ">> \o Dump(H, child)
                \o (IF K \ {k} # {} THEN <<",", " ">> ELSE <<>>)
                \o Members(H, n, K \ {k})

ChildAt(y, key) == Root(y).kids[MapFind(Root(y).kids, key)].cell

\* C14: on an Object y, y[key] returns the handle of the child when the key is
\* present and leaves the key set unchanged; when the key is absent it inserts
\* the key bound to a null Leaf (is_leaf, no value, serialized as null) and
\* returns an alias of that child, on which to<T>() is absent.
C14_MissingKeyMakesNullLeaf ==
    [][\A x \in Names, y \in Names, key \in Keys :
          (y \in Declared /\ key_indexable(Root(y)) /\ SubscriptCtor(x, y, Key(key))) =>
              /\ jsons'[x] = ChildAt(y, key)'
              /\ key \in KeySet(Root(y)) =>
                     (KeySet(Root(y))' = KeySet(Root(y)) /\ Kept(y))
              /\ key \notin KeySet(Root(y)) =>
                     /\ KeySet(Root(y))' = KeySet(Root(y)) \cup {key}
                     /\ Root(x)' = NullLeaf
                     /\ is_leaf(Root(x))'
                     /\ Dump(Heap, jsons[x])' = <<"n", "u", "l", "l">>
                     /\ ~to_double(Heap, jsons[x]).present']_vars

\* arr[i] is the handle of y: the read yields y's own cell and changes nothing
Aliases(arr, i, y) ==
    /\ arr \in Declared /\ y \in Declared
    /\ indexable(Root(arr)) /\ i < Len(Root(arr).elems)
    /\ Json_subscript_idx(Heap, jsons[arr], i) = [heap |-> Heap, cell |-> jsons[y]]

\* a whole-value assignment to x, which makes x another value
Replaced(x) ==
    \/ \E z \in Names : Assign(x, <<>>, z)
    \/ \E leaf \in AssignValues : AssignValue(x, <<>>, leaf)
    \/ \E items \in Vectors : AssignVector(x, items)

\* C15: arr = Json::array({.., y, ..}) with y at position i makes arr[i] the
\* handle of y, and it stays so under every statement but a whole-value
\* assignment to arr itself: after a subscript assignment inside y, after
\* y = v and after arr[i] = v alike, arr[i] and y are one handle and show one
\* value.  (Stated by its contrapositive: a step that parts arr[i] from y is a
\* whole-value assignment to arr.)
C15_ArrayAliasesItsArguments ==
    [][\A arr \in Names, y \in Names :
          /\ \A list \in Lists : \A i \in 1..Len(list) :
                 (list[i] = Var(y) /\ ArrayFactory(arr, list)) => Aliases(arr, i - 1, y)'
          /\ \A i \in Indices :
                 (Aliases(arr, i, y) /\ ~Aliases(arr, i, y)') => Replaced(arr)]_vars

\* C15 witness: arr was built by Json::array over y, y has since or before
\* been given "s" by a whole-value assignment, and arr[i] reads "s"
C15_Witness ==
    \E arr \in Names, y \in Names, i \in Indices :
        /\ made[arr] = How("array", y)
        /\ Aliases(arr, i, y)
        /\ Root(y) = StringLeaf(<<"s">>)
        /\ NodeOf(Heap, Json_subscript_idx(Heap, jsons[arr], i).cell) = StringLeaf(<<"s">>)

\* the handle the expression x[s1][s2].. denotes, and whether it is a slot of
\* x's value rather than a temporary
Slot(x, path) == Eval(Heap, jsons[x], path)
Lands(x, path) == Slot(x, path).cell \in ReachCells(Slot(x, path).heap, {jsons[x]})

\* what the handle x[s1][s2].. shows: whether its value ends (operator<< on a
\* cyclic value recurses without end), and the tree when it does
Ends(x, path) == AcyclicFrom(Slot(x, path).heap, Slot(x, path).cell)
Tree(x, path) == Unfold(Slot(x, path).heap, Slot(x, path).cell)
Unseen(x, path) ==
    /\ Ends(x, path)' <=> Ends(x, path)
    /\ Ends(x, path) => Tree(x, path)' = Tree(x, path)

\* x[s1][s2].. and y are two handle cells on one node
Merged(x, path, y) ==
    /\ x \in Declared /\ y \in Declared
    /\ Slot(x, path).heap = Heap
    /\ Slot(x, path).cell # jsons[y]
    /\ cells[Slot(x, path).cell] = cells[jsons[y]]

\* the handles the evaluation of x[s1][s2].. goes through before the last
\* subscript
Route(x, path) == {Slot(x, SubSeq(path, 1, k)).cell : k \in 0..(Len(path) - 1)}

\* a whole-value assignment to the handle x[s1][s2]..
Retarget(x, path) ==
    \/ \E z \in Names : Assign(x, path, z)
    \/ \E leaf \in AssignValues : AssignValue(x, path, leaf)
    \/ path = <<>> /\ \E items \in Vectors : AssignVector(x, items)

\* C16: x[path] = y (path empty: x = y), for a left side that is a slot of x,
\* met once on the way to it, and another handle than y, leaves the target and y two handle cells on one
\* node; and whenever a target and y are two cells on one node, a whole-value
\* assignment to y leaves what the target shows as it was (the target being
\* reached otherwise than through y), and a whole-value assignment to the
\* target leaves what y shows as it was.
C16_AssignMergesValuesNotIdentities ==
    [][\A x \in Names, y \in Names : \A path \in Paths :
          /\ (/\ x \in Declared /\ y \in Declared
              /\ Lands(x, path)
              /\ Slot(x, path).cell \notin Route(x, path) \cup {jsons[y]}
              /\ Assign(x, path, y)) => Merged(x, path, y)'
          /\ Merged(x, path, y) =>
                 /\ (jsons[y] \notin Route(x, path) /\ Replaced(y)) => Unseen(x, path)
                 /\ Retarget(x, path) => Unseen(y, <<>>)]_vars

\* C17: parse_str reads no character beyond position size() of the cleaned
\* text (the terminator), and ends by returning a tree or by raising an error
C17_CursorStaysWithinText ==
    pc = "done" =>
        /\ outcome.high <= outcome.size
        /\ outcome.exc # "fault"
        /\ Returned \/ NoTree

(***************************************************************************)
(* Properties of the extracting program (SpecTo).                          *)
(***************************************************************************)
\* C11: to<T>() never lets an exception escape, and it returns absent when
\* the root is not a leaf, when the leaf's text is absent, and when the text
\* cannot be converted to T: text that is not numeric, and numeric text too
\* large for the target type.
C11_ToNeverThrows ==
    pc = "extracted" =>
        /\ outcome.exc = "none"
        /\ (~is_leaf(NodeOf(Heap, jsons["a"])) \/ NodeOf(Heap, jsons["a"]).value = <<>>)
               => ~outcome.present

====
